---- MODULE Spec2Model ----
(***************************************************************************)
(* Model of the sensorpi actuator control engine:                          *)
(*   controllers/relay_controller.py  RelayController, RelayState          *)
(*   automation/manual_override.py    ManualOverrideManager                *)
(*   automation/rule_engine.py        AutomationEngine                     *)
(*                                                                         *)
(* The controller's methods are modelled as a step machine over a call     *)
(* frame (one step per read-and-branch or write of the Python code).  A    *)
(* sequential call is the step machine run to its end; the threaded        *)
(* specification interleaves single steps.                                 *)
(***************************************************************************)
EXTENDS Integers, Sequences, FiniteSets, TLC

VARIABLES
    cfg,        \* constructor arguments of RelayController (pins, dependencies, wiring)
    states,     \* RelayController._states : device -> "ON" | "OFF"
    gpio,       \* output line level of every registered device's pin
    last,       \* summary of the last completed controller call
    hist,       \* the most recent successful set_state calls, oldest first
    faulted,    \* whether a hardware write has failed since construction
    rules,      \* AutomationEngine._rules
    overrides,  \* ManualOverrideManager._overrides : device -> ManualOverride
    now,        \* the clock read by datetime.now, in minutes since construction
    frames,     \* per thread: the controller call it is executing
    seen,       \* what the last get_all_states of a thread returned
    loop        \* DataCollectorService.run_forever: its position and locals

ctlVars == <<cfg, states, gpio>>
obsVars == <<last, hist, faulted>>
engVars == <<rules, overrides, now>>
thrVars == <<frames, seen, loop>>
vars == <<cfg, states, gpio, last, hist, faulted, rules, overrides, now, frames, seen, loop>>

\* ------------------------------------------------------------------ bounds

\* A call's k-th hardware write may fail, for k in 1..MaxFaultAt (0: no fault).
MaxFaultAt == 2

\* ------------------------------------------------------------------ RelayState

ON == "ON"
OFF == "OFF"
RelayState == {ON, OFF}

LOW == 0
HIGH == 1

to_gpio_inverted(state, active_low) ==
    IF active_low
    THEN (IF state = ON THEN HIGH ELSE LOW)
    ELSE (IF state = ON THEN LOW ELSE HIGH)

to_gpio(state, active_low) ==
    IF active_low
    THEN (IF state = ON THEN LOW ELSE HIGH)
    ELSE (IF state = ON THEN HIGH ELSE LOW)

\* ------------------------------------------------------------------ configurations

SeqToSet(s) == {s[i] : i \in 1..Len(s)}

Dep(id, requires, required_by, auto_on, auto_off) ==
    [id |-> id, requires |-> requires, required_by |-> required_by,
     auto_on |-> auto_on, auto_off |-> auto_off]

\* No dependencies at all (the default configuration of settings.py).
CfgPlain == [pins |-> <<"fan", "led">>, deps |-> <<>>]

\* The deployment the class docstring describes: a supply relay that lists its
\* loads, and a two-speed fan whose high speed requires the low speed.
CfgSupply ==
    [pins |-> <<"valve", "pwr", "led">>,
     deps |-> << Dep("pwr", <<>>, <<"valve", "led">>, TRUE, TRUE) >>]

CfgTwoSpeed ==
    [pins |-> <<"low", "high">>,
     deps |-> << Dep("high", <<"low">>, <<>>, FALSE, FALSE) >>]

\* One load behind one required relay, both directions declared.
CfgPair ==
    [pins |-> <<"r", "d">>,
     deps |-> << Dep("d", <<"r">>, <<>>, FALSE, FALSE),
                 Dep("r", <<>>, <<"d">>, FALSE, FALSE) >>]

\* A chain: d requires r, r requires q.
CfgChain ==
    [pins |-> <<"q", "r", "d">>,
     deps |-> << Dep("q", <<>>, <<"r">>, FALSE, FALSE),
                 Dep("r", <<"q">>, <<"d">>, FALSE, FALSE),
                 Dep("d", <<"r">>, <<>>, FALSE, FALSE) >>]

\* A shared supply relay with auto_off, its two loads requiring it.
CfgShared ==
    [pins |-> <<"p", "d1", "d2">>,
     deps |-> << Dep("p", <<>>, <<"d1", "d2">>, FALSE, TRUE),
                 Dep("d1", <<"p">>, <<>>, FALSE, FALSE),
                 Dep("d2", <<"p">>, <<>>, FALSE, FALSE) >>]

\* A supply relay feeding another supply relay, both auto_off.
CfgFeed ==
    [pins |-> <<"p1", "p2", "d">>,
     deps |-> << Dep("p1", <<>>, <<"p2">>, TRUE, TRUE),
                 Dep("p2", <<"p1">>, <<"d">>, TRUE, TRUE),
                 Dep("d", <<"p2">>, <<>>, FALSE, FALSE) >>]

Graphs == {CfgPlain, CfgSupply, CfgTwoSpeed, CfgPair, CfgChain, CfgShared, CfgFeed}

\* RelayController.__init__: the graph plus wiring mode, line polarity and
\* fail-safe state (main.py always passes active_low=True).
Configs ==
    {[pins |-> g.pins, deps |-> g.deps, nc_wiring |-> nc, active_low |-> TRUE,
      fail_safe |-> fs] : g \in Graphs, nc \in BOOLEAN, fs \in RelayState}

\* A device id no configuration registers.
Ghost == "ghost"

Pins(c) == SeqToSet(c.pins)

\* dict.get(key) on _states: None for a missing key.
StateOf(st, device_id) == IF device_id \in DOMAIN st THEN st[device_id] ELSE "None"

DepEntries(c, device_id) == {i \in 1..Len(c.deps) : c.deps[i].id = device_id}

_get_dependents(c, device_id) ==
    IF DepEntries(c, device_id) = {} THEN <<>>
    ELSE c.deps[CHOOSE i \in DepEntries(c, device_id) : TRUE].required_by

_get_requirements(c, device_id) ==
    IF DepEntries(c, device_id) = {} THEN <<>>
    ELSE c.deps[CHOOSE i \in DepEntries(c, device_id) : TRUE].requires

_all_dependent_on(c, st, device_id) ==
    \A d \in SeqToSet(_get_dependents(c, device_id)) : StateOf(st, d) = ON

_any_dependent_on(c, st, device_id) ==
    \E d \in SeqToSet(_get_dependents(c, device_id)) : StateOf(st, d) = ON

\* ------------------------------------------------------------------ call frames

\* A machine state m = [f, states, gpio]: the frame of the running call and the
\* controller fields it reads and writes.
NewFrame(op, device_id, state, failAt) ==
    [op |-> op, pc |-> "entry", dev |-> device_id, st |-> state, i |-> 1,
     rdev |-> "-", rst |-> "-", ret |-> "-",
     failAt |-> failAt, nw |-> 0, writes |-> <<>>, result |-> "running", failed |-> "-"]

Finished(f) == f.pc \in {"done", "raised"}

Raise(m, error) == [m EXCEPT !.f.pc = "raised", !.f.result = error]

Return(m) == [m EXCEPT !.f.pc = "done", !.f.result = "ok"]

\* self._set_raw(device_id, state), then continue at pc `ret` with loop index i.
CallRaw(m, device_id, state, ret, i) ==
    [m EXCEPT !.f.pc = "raw_output", !.f.rdev = device_id, !.f.rst = state,
              !.f.ret = ret, !.f.i = i]

\* As coil_state, but without the inversion for normally-closed wiring.
coil_state_direct(c, state) == state

coil_state(c, state) ==
    IF c.nc_wiring THEN (IF state = ON THEN OFF ELSE ON) ELSE state

\* As _set_raw_output, but recording the logical state before the write is tried.
_set_raw_output_assign_first(c, m) ==
    IF m.f.rdev \notin Pins(c) THEN Raise(m, "UnknownDevice")
    ELSE IF m.f.nw + 1 = m.f.failAt
         THEN [Raise(m, "HardwareFault") EXCEPT !.f.nw = @ + 1, !.f.failed = m.f.rdev,
                                                !.states[m.f.rdev] = m.f.rst]
         ELSE [m EXCEPT !.f.nw = @ + 1,
                        !.f.writes = Append(@, <<m.f.rdev, to_gpio(coil_state(c, m.f.rst), c.active_low)>>),
                        !.gpio[m.f.rdev] = to_gpio(coil_state(c, m.f.rst), c.active_low),
                        !.states[m.f.rdev] = m.f.rst,
                        !.f.pc = "raw_assign"]

\* _set_raw up to and including gpio.output: the pin lookup, the wiring
\* inversion and the write, which the hardware may refuse.
_set_raw_output(c, m) ==
    IF m.f.rdev \notin Pins(c) THEN Raise(m, "UnknownDevice")
    ELSE IF m.f.nw + 1 = m.f.failAt
         THEN [Raise(m, "HardwareFault") EXCEPT !.f.nw = @ + 1, !.f.failed = m.f.rdev]
         ELSE [m EXCEPT !.f.nw = @ + 1,
                        !.f.writes = Append(@, <<m.f.rdev, to_gpio(coil_state(c, m.f.rst), c.active_low)>>),
                        !.gpio[m.f.rdev] = to_gpio(coil_state(c, m.f.rst), c.active_low),
                        !.f.pc = "raw_assign"]

\* _set_raw's last statement: self._states[device_id] = state.
_set_raw_assign(c, m) ==
    LET n == [m EXCEPT !.states[m.f.rdev] = m.f.rst]
    IN IF m.f.ret = "done" THEN Return(n) ELSE [n EXCEPT !.f.pc = m.f.ret]

\* As set_state_entry, but an unregistered device is ignored without an error.
set_state_entry_ignore_unknown(c, m) ==
    IF m.f.dev \notin Pins(c) THEN Return(m)
    ELSE IF m.f.st = ON THEN [m EXCEPT !.f.pc = "on_req", !.f.i = 1]
    ELSE CallRaw(m, m.f.dev, OFF, "off_dep", 1)

\* set_state: the registry check and the branch on the requested state.
set_state_entry(c, m) ==
    IF m.f.dev \notin Pins(c) THEN Raise(m, "UnknownDevice")
    ELSE IF m.f.st = ON THEN [m EXCEPT !.f.pc = "on_req", !.f.i = 1]
    ELSE CallRaw(m, m.f.dev, OFF, "off_dep", 1)

\* As set_state_on_req, but without enabling the requirements.
set_state_on_req_skip(c, m) == [m EXCEPT !.f.pc = "on_pwr", !.f.i = 1]

\* set_state ON: one iteration of the loop over the device's requirements.
set_state_on_req(c, m) ==
    LET requirements == _get_requirements(c, m.f.dev)
        i == m.f.i
    IN IF i > Len(requirements) THEN [m EXCEPT !.f.pc = "on_pwr", !.f.i = 1]
       ELSE IF StateOf(m.states, requirements[i]) # ON
            THEN CallRaw(m, requirements[i], ON, "on_req", i + 1)
            ELSE [m EXCEPT !.f.i = i + 1]

\* As set_state_on_pwr, but enabling every auto_on relay that is not ON.
set_state_on_pwr_any(c, m) ==
    LET i == m.f.i
    IN IF i > Len(c.deps) THEN CallRaw(m, m.f.dev, ON, "done", i)
       ELSE IF /\ c.deps[i].auto_on
               /\ StateOf(m.states, c.deps[i].id) # ON
            THEN CallRaw(m, c.deps[i].id, ON, "on_pwr", i + 1)
            ELSE [m EXCEPT !.f.i = i + 1]

\* set_state ON: one iteration of the loop over the dependency entries, and
\* after the loop the raw write of the device itself.
set_state_on_pwr(c, m) ==
    LET i == m.f.i
    IN IF i > Len(c.deps) THEN CallRaw(m, m.f.dev, ON, "done", i)
       ELSE IF /\ m.f.dev \in SeqToSet(c.deps[i].required_by)
               /\ c.deps[i].auto_on
               /\ StateOf(m.states, c.deps[i].id) # ON
            THEN CallRaw(m, c.deps[i].id, ON, "on_pwr", i + 1)
            ELSE [m EXCEPT !.f.i = i + 1]

\* As set_state_off_dep, but leaving the devices that require this one alone.
set_state_off_dep_skip(c, m) == [m EXCEPT !.f.pc = "off_pwr", !.f.i = 1]

\* set_state OFF: one iteration of the loop over the registered devices.
set_state_off_dep(c, m) ==
    LET i == m.f.i
    IN IF i > Len(c.pins) THEN [m EXCEPT !.f.pc = "off_pwr", !.f.i = 1]
       ELSE IF /\ m.f.dev \in SeqToSet(_get_requirements(c, c.pins[i]))
               /\ StateOf(m.states, c.pins[i]) = ON
            THEN CallRaw(m, c.pins[i], OFF, "off_dep", i + 1)
            ELSE [m EXCEPT !.f.i = i + 1]

\* set_state OFF: one iteration of the loop over the dependency entries.
set_state_off_pwr(c, m) ==
    LET i == m.f.i
    IN IF i > Len(c.deps) THEN Return(m)
       ELSE IF /\ c.deps[i].auto_off
               /\ ~ _any_dependent_on(c, m.states, c.deps[i].id)
               /\ StateOf(m.states, c.deps[i].id) = ON
            THEN CallRaw(m, c.deps[i].id, OFF, "off_pwr", i + 1)
            ELSE [m EXCEPT !.f.i = i + 1]

\* As fail_safe_loop, but leaving out the devices already in the fail-safe state.
fail_safe_loop_changed_only(c, m) ==
    LET i == m.f.i
    IN IF i > Len(c.pins) THEN Return(m)
       ELSE IF StateOf(m.states, c.pins[i]) = c.fail_safe THEN [m EXCEPT !.f.i = i + 1]
       ELSE CallRaw(m, c.pins[i], c.fail_safe, "fs_loop", i + 1)

\* fail_safe: one iteration of the loop over the registered devices.
fail_safe_loop(c, m) ==
    LET i == m.f.i
    IN IF i > Len(c.pins) THEN Return(m)
       ELSE CallRaw(m, c.pins[i], c.fail_safe, "fs_loop", i + 1)

\* One step of the running call.
Step(c, m) ==
    CASE m.f.pc = "entry" /\ m.f.op = "set_state" -> set_state_entry(c, m)
      [] m.f.pc = "entry" /\ m.f.op = "fail_safe" -> [m EXCEPT !.f.pc = "fs_loop", !.f.i = 1]
      [] m.f.pc = "on_req" -> set_state_on_req(c, m)
      [] m.f.pc = "on_pwr" -> set_state_on_pwr(c, m)
      [] m.f.pc = "off_dep" -> set_state_off_dep(c, m)
      [] m.f.pc = "off_pwr" -> set_state_off_pwr(c, m)
      [] m.f.pc = "fs_loop" -> fail_safe_loop(c, m)
      [] m.f.pc = "raw_output" -> _set_raw_output(c, m)
      [] m.f.pc = "raw_assign" -> _set_raw_assign(c, m)
      [] OTHER -> m

RECURSIVE Run(_, _)
Run(c, m) == IF Finished(m.f) THEN m ELSE Run(c, Step(c, m))

\* The whole call, from the controller's current fields.
set_state(c, st, io, device_id, state, failAt) ==
    Run(c, [f |-> NewFrame("set_state", device_id, state, failAt), states |-> st, gpio |-> io])

fail_safe(c, st, io, failAt) ==
    Run(c, [f |-> NewFrame("fail_safe", "-", c.fail_safe, failAt), states |-> st, gpio |-> io])

get_state(c, st, device_id) ==
    IF device_id \notin Pins(c) THEN [result |-> "UnknownDevice", value |-> "-"]
    ELSE [result |-> "ok", value |-> IF device_id \in DOMAIN st THEN st[device_id] ELSE OFF]

get_all_states(st) == st

\* As _setup_states, but OFF under either wiring.
_setup_states_off(c) == [d \in Pins(c) |-> OFF]

\* _setup: every line driven to the de-energized level, every logical state
\* ON under normally-closed wiring and OFF otherwise.
_setup_states(c) == [d \in Pins(c) |-> IF c.nc_wiring THEN ON ELSE OFF]

_setup_gpio(c) == [d \in Pins(c) |-> to_gpio(OFF, c.active_low)]

\* ------------------------------------------------------------------ manual overrides

Put(map, k, v) == [x \in DOMAIN map \cup {k} |-> IF x = k THEN v ELSE map[x]]

Pop(map, k) == [x \in DOMAIN map \ {k} |-> map[x]]

EmptyMap == [x \in {} |-> x]

\* As is_expired, but with the expiry instant itself still counted as active.
is_expired_after(o, t) == t > o.expires_at

is_expired(o, t) == t >= o.expires_at

\* As set_override, but keeping an entry the device already has.
set_override_keep(ov, device_id, state, duration_minutes, t) ==
    IF device_id \in DOMAIN ov THEN ov
    ELSE Put(ov, device_id,
             [device_id |-> device_id, state |-> state, expires_at |-> t + duration_minutes])

set_override(ov, device_id, state, duration_minutes, t) ==
    Put(ov, device_id,
        [device_id |-> device_id, state |-> state, expires_at |-> t + duration_minutes])

\* As clear_override, but leaving the entry in the table.
clear_override_keep(ov, device_id) == ov

clear_override(ov, device_id) == Pop(ov, device_id)

\* The table after the call, and whether an override was returned.
get_override(ov, device_id, t) ==
    IF device_id \in DOMAIN ov /\ is_expired(ov[device_id], t)
    THEN [ov |-> Pop(ov, device_id), found |-> FALSE]
    ELSE [ov |-> ov, found |-> device_id \in DOMAIN ov]

cleanup(ov, t) == [x \in {d \in DOMAIN ov : ~is_expired(ov[d], t)} |-> ov[x]]

\* ------------------------------------------------------------------ automation rules

_compare(value, operator, threshold) ==
    CASE operator = ">" -> value > threshold
      [] operator = ">=" -> value >= threshold
      [] operator = "<" -> value < threshold
      [] operator = "<=" -> value <= threshold
      [] operator = "==" -> value = threshold
      [] operator = "!=" -> value # threshold
      [] OTHER -> FALSE

\* As ThresholdCondition_is_met, but asking every value to satisfy the comparison.
ThresholdCondition_all_met(cond, values) ==
    \A i \in 1..Len(values) : _compare(values[i], cond.operator, cond.threshold)

ThresholdCondition_is_met(cond, values) ==
    \E i \in 1..Len(values) : _compare(values[i], cond.operator, cond.threshold)

\* As ScheduleCondition_is_met, but without the overnight case.
ScheduleCondition_is_met_same_day(sc, t) == sc.start <= t /\ t <= sc.end

ScheduleCondition_is_met(sc, t) ==
    IF sc.start <= sc.end THEN sc.start <= t /\ t <= sc.end
    ELSE t >= sc.start \/ t <= sc.end

ValuesOf(readings, measurement) ==
    LET sel == SelectSeq(readings, LAMBDA r : r.measurement = measurement)
    IN [i \in 1..Len(sel) |-> sel[i].value]

\* SensorSnapshot.__init__: the values of each measurement, in reading order.
SensorSnapshot(readings) ==
    [m \in {readings[i].measurement : i \in 1..Len(readings)} |-> ValuesOf(readings, m)]

get_measurement(snap, measurement) ==
    IF measurement \in DOMAIN snap THEN snap[measurement] ELSE <<>>

\* As Complement, but giving no decision when the condition is not met.
Complement_undecided(state) == "None"

Complement(state) == IF state = ON THEN OFF ELSE ON

\* As evaluate, but giving no decision when no threshold condition has a value.
evaluate_values_only(rule, snap, tod) ==
    IF rule.condition_type = "threshold"
    THEN IF \E i \in 1..Len(rule.threshold_conditions) :
                /\ get_measurement(snap, rule.threshold_conditions[i].measurement) # <<>>
                /\ ThresholdCondition_is_met(rule.threshold_conditions[i],
                       get_measurement(snap, rule.threshold_conditions[i].measurement))
         THEN rule.action_on_true
         ELSE IF \A i \in 1..Len(rule.threshold_conditions) :
                    get_measurement(snap, rule.threshold_conditions[i].measurement) = <<>>
         THEN "None"
         ELSE Complement(rule.action_on_true)
    ELSE IF rule.condition_type = "schedule" /\ rule.schedule_condition # <<>>
    THEN IF ScheduleCondition_is_met(rule.schedule_condition[1], tod)
         THEN rule.action_on_true
         ELSE Complement(rule.action_on_true)
    ELSE "None"

\* AutomationRule.evaluate: the desired state, or "None".
evaluate(rule, snap, tod) ==
    IF rule.condition_type = "threshold"
    THEN IF \E i \in 1..Len(rule.threshold_conditions) :
                /\ get_measurement(snap, rule.threshold_conditions[i].measurement) # <<>>
                /\ ThresholdCondition_is_met(rule.threshold_conditions[i],
                       get_measurement(snap, rule.threshold_conditions[i].measurement))
         THEN rule.action_on_true
         ELSE Complement(rule.action_on_true)
    ELSE IF rule.condition_type = "schedule" /\ rule.schedule_condition # <<>>
    THEN IF ScheduleCondition_is_met(rule.schedule_condition[1], tod)
         THEN rule.action_on_true
         ELSE Complement(rule.action_on_true)
    ELSE "None"

\* ------------------------------------------------------------------ AutomationEngine

\* An engine state e = [p, f, states, gpio, overrides]: the frame of the engine
\* call, the frame of the set_state call it is inside, and the fields of the
\* controller and of the override table.
NewEngine(op, device_id, state, duration, readings, tod, failAt) ==
    [op |-> op, pc |-> "entry", i |-> 1, dev |-> device_id, st |-> state,
     dur |-> duration, snap |-> SensorSnapshot(readings), tod |-> tod,
     result |-> "running", calls |-> <<>>, skipped |-> {},
     failAt |-> failAt, nw |-> 0, writes |-> <<>>]

\* The hardware fault of the engine call, as a position in the next set_state.
RemainingFault(p) == IF p.failAt > p.nw THEN p.failAt - p.nw ELSE 0

CallSetState(e, device_id, state) ==
    [e EXCEPT !.p.pc = "call", !.p.calls = Append(@, <<device_id, state>>),
              !.f = NewFrame("set_state", device_id, state, RemainingFault(e.p))]

NextRule(e) == [e EXCEPT !.p.pc = "rule", !.p.i = @ + 1]

EngineReturn(e) == [e EXCEPT !.p.pc = "done", !.p.result = "ok"]

\* process: the snapshot is built and cleanup() evicts the expired overrides.
process_entry(c, rs, e, t) ==
    [e EXCEPT !.overrides = cleanup(@, t), !.p.pc = "rule", !.p.i = 1]

\* As process_rule, but without consulting the override table.
process_rule_no_override(c, rs, e, t) ==
    IF e.p.i > Len(rs) THEN EngineReturn(e) ELSE [e EXCEPT !.p.pc = "eval"]

\* As process_rule, but leaving out a rule whose device an earlier rule targets.
process_rule_first_wins(c, rs, e, t) ==
    IF e.p.i > Len(rs) THEN EngineReturn(e)
    ELSE IF \E j \in 1..(e.p.i - 1) : rs[j].device_id = rs[e.p.i].device_id
         THEN NextRule(e)
    ELSE LET g == get_override(e.overrides, rs[e.p.i].device_id, t)
         IN IF g.found
            THEN NextRule([e EXCEPT !.overrides = g.ov, !.p.skipped = @ \cup {e.p.i}])
            ELSE [e EXCEPT !.overrides = g.ov, !.p.pc = "eval"]

\* process: the loop head and the override lookup of one rule.
process_rule(c, rs, e, t) ==
    IF e.p.i > Len(rs) THEN EngineReturn(e)
    ELSE LET g == get_override(e.overrides, rs[e.p.i].device_id, t)
         IN IF g.found
            THEN NextRule([e EXCEPT !.overrides = g.ov, !.p.skipped = @ \cup {e.p.i}])
            ELSE [e EXCEPT !.overrides = g.ov, !.p.pc = "eval"]

\* As process_eval, but calling set_state without comparing with the current state.
process_eval_always(c, rs, e, t) ==
    LET rule == rs[e.p.i]
        desired_state == evaluate(rule, e.p.snap, e.p.tod)
        current_state == get_state(c, e.states, rule.device_id)
    IN IF desired_state = "None" THEN NextRule(e)
       ELSE IF current_state.result # "ok"
            THEN [e EXCEPT !.p.pc = "raised", !.p.result = current_state.result]
       ELSE CallSetState(e, rule.device_id, desired_state)

\* process: evaluate the rule, read the device's state, decide on set_state.
process_eval(c, rs, e, t) ==
    LET rule == rs[e.p.i]
        desired_state == evaluate(rule, e.p.snap, e.p.tod)
        current_state == get_state(c, e.states, rule.device_id)
    IN IF desired_state = "None" THEN NextRule(e)
       ELSE IF current_state.result # "ok"
            THEN [e EXCEPT !.p.pc = "raised", !.p.result = current_state.result]
       ELSE IF desired_state # current_state.value
            THEN CallSetState(e, rule.device_id, desired_state)
       ELSE NextRule(e)

\* One step of the set_state call an engine call is inside, and the return
\* (or the exception, which nothing in the engine catches).
engine_call(c, rs, e, t) ==
    LET n == Step(c, e)
        done == [n EXCEPT !.p.nw = @ + n.f.nw, !.p.writes = @ \o n.f.writes]
    IN IF n.f.pc = "raised"
       THEN [done EXCEPT !.p.pc = "raised", !.p.result = n.f.result]
       ELSE IF n.f.pc = "done"
       THEN (IF n.p.op = "process" THEN NextRule(done) ELSE EngineReturn(done))
       ELSE n

\* set_manual_override: the override is installed, then set_state is called.
set_manual_override_entry(c, rs, e, t) ==
    CallSetState([e EXCEPT !.overrides = set_override(@, e.p.dev, e.p.st, e.p.dur, t)],
                 e.p.dev, e.p.st)

\* As clear_manual_override_entry, but switching the device off as well.
clear_manual_override_entry_off(c, rs, e, t) ==
    CallSetState([e EXCEPT !.overrides = clear_override(@, e.p.dev)], e.p.dev, OFF)

\* clear_manual_override: the entry of the device is dropped.
clear_manual_override_entry(c, rs, e, t) ==
    EngineReturn([e EXCEPT !.overrides = clear_override(@, e.p.dev)])

\* One step of the running engine call, at clock reading t.
EngineStep(c, rs, e, t) ==
    CASE e.p.pc = "entry" /\ e.p.op = "process" -> process_entry(c, rs, e, t)
      [] e.p.pc = "entry" /\ e.p.op = "set_manual_override" -> set_manual_override_entry(c, rs, e, t)
      [] e.p.pc = "entry" /\ e.p.op = "clear_manual_override" -> clear_manual_override_entry(c, rs, e, t)
      [] e.p.pc = "rule" -> process_rule(c, rs, e, t)
      [] e.p.pc = "eval" -> process_eval(c, rs, e, t)
      [] e.p.pc = "call" -> engine_call(c, rs, e, t)
      [] OTHER -> e

EngineFinished(p) == p.pc \in {"done", "raised"}

\* A call run to its end, one step after the other.
RECURSIVE RunEngine(_, _, _, _)
RunEngine(c, rs, e, t) ==
    IF EngineFinished(e.p) THEN e
    ELSE CHOOSE r \in {RunEngine(c, rs, n, t) : n \in {EngineStep(c, rs, e, t)}} : TRUE

NoFrame == [NewFrame("idle", "-", "-", 0) EXCEPT !.pc = "idle"]

EngineCall(c, rs, st, io, ov, t, p) ==
    RunEngine(c, rs, [p |-> p, f |-> NoFrame, states |-> st, gpio |-> io, overrides |-> ov], t)

\* ------------------------------------------------------------------ sequential calls

NoCall ==
    [op |-> "none", dev |-> "-", st |-> "-", result |-> "-", value |-> "-",
     pre |-> <<>>, preGpio |-> <<>>, writes |-> <<>>, nw |-> 0, failed |-> "-",
     attempt |-> "-", repeat |-> FALSE,
     calls |-> <<>>, desired |-> <<>>, skipped |-> {}, evicted |-> {}, replaced |-> FALSE,
     dur |-> 0, readings |-> <<>>, tod |-> 0]

\* What a finished controller call did, given the fields it started from.
Summary(f, pre, preGpio) ==
    [NoCall EXCEPT
        !.op = f.op, !.dev = f.dev, !.st = f.st, !.result = f.result,
        !.pre = pre, !.preGpio = preGpio, !.writes = f.writes, !.nw = f.nw,
        !.failed = f.failed,
        !.attempt = IF f.result = "HardwareFault" THEN f.rst ELSE "-",
        !.repeat = /\ f.op = "set_state" /\ f.result = "ok"
                   /\ hist # <<>> /\ hist[Len(hist)] = <<f.dev, f.st>>]

\* The window of recent successful set_state calls; any other change of the
\* controller (a failed call, fail_safe) empties it.
Remember(h, f, keep) ==
    IF f.op = "set_state" /\ f.result = "ok"
    THEN LET a == Append(h, <<f.dev, f.st>>)
         IN IF Len(a) > keep THEN Tail(a) ELSE a
    ELSE <<>>

DeviceIds == Pins(cfg) \cup {Ghost}

Faults == 0..MaxFaultAt

InitController ==
    /\ cfg \in Configs
    /\ states = _setup_states(cfg)
    /\ gpio = _setup_gpio(cfg)
    /\ last = NoCall
    /\ hist = <<>>
    /\ faulted = FALSE

\* Devices no thread is working on, no engine attached.
Threads == {"poll", "api"}

\* The polling loop before run_forever is entered.
NoLoop == [pc |-> "off"]

IdleFrame == [f |-> NoFrame, pre |-> <<>>, preGpio |-> <<>>]

NotSeen == [taken |-> FALSE, snapshot |-> <<>>, before |-> <<>>, after |-> <<>>]

InitThreads ==
    /\ frames = [t \in Threads |-> IdleFrame]
    /\ seen = NotSeen
    /\ loop = NoLoop

InitNoEngine ==
    /\ rules = <<>>
    /\ overrides = EmptyMap
    /\ now = 0

SetStateCall(device_id, state, failAt, keep) ==
    LET m == set_state(cfg, states, gpio, device_id, state, failAt)
    IN /\ states' = m.states
       /\ gpio' = m.gpio
       /\ last' = Summary(m.f, states, gpio)
       /\ hist' = Remember(hist, m.f, keep)
       /\ faulted' = (faulted \/ m.f.result = "HardwareFault")
       /\ UNCHANGED <<cfg, engVars, thrVars>>

FailSafeCall(failAt) ==
    LET m == fail_safe(cfg, states, gpio, failAt)
    IN /\ states' = m.states
       /\ gpio' = m.gpio
       /\ last' = Summary(m.f, states, gpio)
       /\ hist' = <<>>
       /\ faulted' = (faulted \/ m.f.result = "HardwareFault")
       /\ UNCHANGED <<cfg, engVars, thrVars>>

GetStateCall(device_id) ==
    LET r == get_state(cfg, states, device_id)
    IN /\ last' = [NoCall EXCEPT !.op = "get_state", !.dev = device_id,
                                  !.result = r.result, !.value = r.value,
                                  !.pre = states, !.preGpio = gpio]
       /\ UNCHANGED <<cfg, states, gpio, hist, faulted, engVars, thrVars>>

GetAllStatesCall ==
    /\ last' = [NoCall EXCEPT !.op = "get_all_states", !.result = "ok",
                               !.value = get_all_states(states),
                               !.pre = states, !.preGpio = gpio]
    /\ UNCHANGED <<cfg, states, gpio, hist, faulted, engVars, thrVars>>

Init == InitController /\ InitNoEngine /\ InitThreads

Next ==
    \/ \E d \in DeviceIds, s \in RelayState, k \in Faults : SetStateCall(d, s, k, 1)
    \/ \E k \in Faults : FailSafeCall(k)
    \/ \E d \in DeviceIds : GetStateCall(d)
    \/ GetAllStatesCall

Spec == Init /\ [][Next]_vars

\* Fault-free call sequences on the graphs with a shared auto_off supply relay,
\* remembering the last four calls.
SharedSupplies(c) ==
    {p \in Pins(c) : \E i \in DepEntries(c, p) :
        c.deps[i].auto_off /\ Cardinality(SeqToSet(c.deps[i].required_by)) = 2}

InitShared ==
    /\ Init
    /\ SharedSupplies(cfg) # {}
    /\ cfg.fail_safe = OFF

NextShared == \E d \in Pins(cfg), s \in RelayState : SetStateCall(d, s, 0, 4)

SpecShared == InitShared /\ [][NextShared]_vars

\* ------------------------------------------------------------------ engine calls

\* The longest time the clock is followed for.
MaxTime == 1

Rule(name, device_id, action, condition_type, conditions, schedule) ==
    [name |-> name, device_id |-> device_id, action_on_true |-> action,
     condition_type |-> condition_type, threshold_conditions |-> conditions,
     schedule_condition |-> schedule]

\* The rule of the default configuration: temperature > 25.
Hot(device_id, action) ==
    Rule("hot", device_id, action, "threshold",
         << [measurement |-> "temperature", operator |-> ">", threshold |-> 25] >>, <<>>)

\* A schedule that wraps past midnight: 22:00 to 06:00, in minutes of the day.
Night(device_id, action) ==
    Rule("night", device_id, action, "schedule", <<>>,
         << [start |-> 22 * 60, end |-> 6 * 60] >>)

RuleSets(c) ==
    {<<Hot(d, ON)>> : d \in Pins(c)}
        \cup {<<Hot(c.pins[1], ON), Night(d, OFF)>> : d \in Pins(c)}

Reading(measurement, value) == [measurement |-> measurement, value |-> value]

ReadingLists ==
    { <<Reading("temperature", 24)>>,
      <<Reading("temperature", 24), Reading("temperature", 26)>>,
      <<Reading("humidity", 60)>> }

\* 12:00 and 23:30.
TimesOfDay == {12 * 60, 23 * 60 + 30}

Durations == {0, 1}

EngineFaults == {0, 1}

\* What a finished engine call did: the set_state calls it issued and, for
\* process, what each rule evaluated to.
EngineSummary(e) ==
    [NoCall EXCEPT
        !.op = e.p.op, !.dev = e.p.dev, !.st = e.p.st, !.result = e.p.result,
        !.nw = e.p.nw, !.failed = e.f.failed,
        !.attempt = IF e.p.result = "HardwareFault" THEN e.f.rst ELSE "-",
        !.calls = e.p.calls,
        !.dur = e.p.dur,
        !.skipped = e.p.skipped,
        !.evicted = IF e.p.op = "process"
                    THEN {d \in DOMAIN overrides : is_expired(overrides[d], now)}
                    ELSE {},
        !.replaced = (e.p.op = "set_manual_override" /\ e.p.dev \in DOMAIN overrides),
        !.desired = IF e.p.op = "process"
                    THEN [i \in 1..Len(rules) |-> evaluate(rules[i], e.p.snap, e.p.tod)]
                    ELSE <<>>]

EngineAction(op, device_id, state, duration, readings, tod, failAt) ==
    LET p == NewEngine(op, device_id, state, duration, readings, tod, failAt)
        e == EngineCall(cfg, rules, states, gpio, overrides, now, p)
    IN /\ states' = e.states
       /\ gpio' = e.gpio
       /\ overrides' = e.overrides
       /\ last' = EngineSummary(e)
       /\ hist' = <<>>
       /\ faulted' = (faulted \/ e.p.result = "HardwareFault")
       /\ UNCHANGED <<cfg, rules, now, thrVars>>

ProcessCall(readings, tod, failAt) ==
    EngineAction("process", "-", "-", 0, readings, tod, failAt)

SetManualOverrideCall(device_id, state, duration_minutes, failAt) ==
    EngineAction("set_manual_override", device_id, state, duration_minutes, <<>>, 0, failAt)

ClearManualOverrideCall(device_id) ==
    EngineAction("clear_manual_override", device_id, "-", 0, <<>>, 0, 0)

Tick ==
    /\ now < MaxTime
    /\ now' = now + 1
    /\ last' = [NoCall EXCEPT !.op = "tick"]
    /\ UNCHANGED <<ctlVars, hist, faulted, rules, overrides, thrVars>>

EngineGraphs == {CfgPair}

InitEngine ==
    /\ InitController
    /\ InitThreads
    /\ \E g \in EngineGraphs : cfg.pins = g.pins /\ cfg.deps = g.deps
    /\ cfg.fail_safe = OFF
    /\ ~cfg.nc_wiring
    /\ rules \in RuleSets(cfg)
    /\ overrides = EmptyMap
    /\ now = 0

NextEngine ==
    \/ \E r \in ReadingLists, tod \in TimesOfDay, k \in EngineFaults : ProcessCall(r, tod, k)
    \/ \E d \in Pins(cfg), s \in RelayState, m \in Durations, k \in EngineFaults :
          SetManualOverrideCall(d, s, m, k)
    \/ \E d \in Pins(cfg) : ClearManualOverrideCall(d)
    \/ Tick

SpecEngine == InitEngine /\ [][NextEngine]_vars

\* ------------------------------------------------------------------ startup

\* Configurations a settings file can hold that the spec calls malformed: a
\* cycle under requires, an entry naming an unregistered device, and the
\* one-sided required_by entry of the class docstring.
CfgCycle ==
    [pins |-> <<"a", "b">>,
     deps |-> << Dep("a", <<"b">>, <<"b">>, FALSE, FALSE),
                 Dep("b", <<"a">>, <<"a">>, FALSE, FALSE) >>]

CfgDangling ==
    [pins |-> <<"a", "b">>,
     deps |-> << Dep("a", <<Ghost>>, <<>>, FALSE, FALSE) >>]

StartupGraphs == {CfgCycle, CfgDangling, CfgSupply, CfgPlain}

\* _build_relay_controller and RelayController.__init__ / _setup store what
\* they are given; AutomationEngine._build_rules compiles every entry
\* without looking its device up.
InitStartup ==
    /\ \E g \in StartupGraphs, nc \in BOOLEAN, fs \in RelayState :
          cfg = [pins |-> g.pins, deps |-> g.deps, nc_wiring |-> nc,
                 active_low |-> TRUE, fail_safe |-> fs]
    /\ states = _setup_states(cfg)
    /\ gpio = _setup_gpio(cfg)
    /\ last = NoCall
    /\ hist = <<>>
    /\ faulted = FALSE
    /\ InitThreads
    /\ \E d \in {cfg.pins[1], Ghost} : rules = <<Hot(d, ON)>>
    /\ overrides = EmptyMap
    /\ now = 0

NextStartup ==
    \/ \E d \in Pins(cfg), s \in RelayState : SetStateCall(d, s, 0, 1)
    \/ \E r \in ReadingLists : ProcessCall(r, 12 * 60, 0)

SpecStartup == InitStartup /\ [][NextStartup]_vars

\* ------------------------------------------------------------------ transport (rpi_api.py)

\* The methods the class RelayController defines.
RelayControllerMethods ==
    {"__init__", "_setup", "_set_raw", "_get_dependents", "_get_requirements",
     "_should_auto_on", "_should_auto_off", "_any_dependent_on",
     "set_state", "get_state", "get_all_states", "fail_safe", "cleanup"}

\* _relay_controller.<method>(device_id, state): the call when the class
\* defines the method, AttributeError when it does not.
Invoke(c, st, io, method, device_id, state) ==
    IF method \notin RelayControllerMethods
    THEN Raise([f |-> NewFrame(method, device_id, state, 0), states |-> st, gpio |-> io],
               "AttributeError")
    ELSE IF method = "set_state" THEN set_state(c, st, io, device_id, state, 0)
    ELSE IF method = "fail_safe" THEN fail_safe(c, st, io, 0)
    ELSE Return([f |-> NewFrame(method, device_id, state, 0), states |-> st, gpio |-> io])

\* A request body: no "state" key, or the string it carries.
NoState == "<missing>"

RequestStates == {NoState, "on", "off", "ON", "Off", "toggle", ""}

\* str.lower() on the strings above.
lower(s) ==
    CASE s = "ON" -> "on"
      [] s = "Off" -> "off"
      [] OTHER -> s

\* RelayState.name.lower()
state_name(s) == IF s = ON THEN "on" ELSE "off"

\* set_relay: the status of the response and the controller fields after it.
\* An exception the handler does not catch is the framework's 500.
set_relay(c, st, io, device_id, body) ==
    LET unchanged == [status |-> 0, states |-> st, gpio |-> io, nw |-> 0]
    IN IF body = NoState THEN [unchanged EXCEPT !.status = 400]
       ELSE IF lower(body) \notin {"on", "off"} THEN [unchanged EXCEPT !.status = 400]
       ELSE LET new_state == IF lower(body) = "on" THEN ON ELSE OFF
                m == Invoke(c, st, io, "set", device_id, new_state)
            IN [status |-> CASE m.f.result = "ok" -> 200
                             [] m.f.result = "UnknownDevice" -> 404
                             [] OTHER -> 500,
                states |-> m.states, gpio |-> m.gpio, nw |-> m.f.nw]

\* all_relays_off: the status, the controller fields and the reported states.
all_relays_off(c, st, io) ==
    LET m == Invoke(c, st, io, "all_off", "-", "-")
    IN [status |-> IF m.f.result = "ok" THEN 200 ELSE 500,
        states |-> m.states, gpio |-> m.gpio, nw |-> m.f.nw,
        reported |-> IF m.f.result = "ok"
                     THEN [d \in DOMAIN m.states |-> state_name(get_all_states(m.states)[d])]
                     ELSE <<>>]

SetRelayRequest(device_id, body) ==
    LET r == set_relay(cfg, states, gpio, device_id, body)
    IN /\ states' = r.states
       /\ gpio' = r.gpio
       /\ last' = [NoCall EXCEPT !.op = "set_relay", !.dev = device_id, !.st = body,
                                  !.result = r.status, !.nw = r.nw,
                                  !.pre = states, !.preGpio = gpio]
       /\ UNCHANGED <<cfg, hist, faulted, engVars, thrVars>>

AllRelaysOffRequest ==
    LET r == all_relays_off(cfg, states, gpio)
    IN /\ states' = r.states
       /\ gpio' = r.gpio
       /\ last' = [NoCall EXCEPT !.op = "all_relays_off", !.result = r.status,
                                  !.value = r.reported, !.nw = r.nw,
                                  !.pre = states, !.preGpio = gpio]
       /\ UNCHANGED <<cfg, hist, faulted, engVars, thrVars>>

\* Requests of the API, between set_state calls made by the polling side.
NextApi ==
    \/ \E d \in DeviceIds, b \in RequestStates : SetRelayRequest(d, b)
    \/ AllRelaysOffRequest
    \/ \E d \in Pins(cfg), s \in RelayState : SetStateCall(d, s, 0, 1)

InitApi ==
    /\ Init
    /\ \E g \in {CfgPlain, CfgPair} : cfg.pins = g.pins /\ cfg.deps = g.deps

SpecApi == InitApi /\ [][NextApi]_vars

\* ------------------------------------------------------------------ polling cycles

\* How many consecutive process() calls are remembered.
MaxCycles == 3

\* One polling cycle's process(readings), remembered with the readings, whether
\* the first rule was skipped for an override, and the state its device ended in.
CycleCall(readings, tod) ==
    LET e == EngineCall(cfg, rules, states, gpio, overrides, now,
                        NewEngine("process", "-", "-", 0, readings, tod, 0))
        entry == [readings |-> readings, skipped |-> 1 \in e.p.skipped,
                  state |-> e.states[rules[1].device_id]]
        h == Append(hist, entry)
    IN /\ states' = e.states
       /\ gpio' = e.gpio
       /\ overrides' = e.overrides
       /\ last' = EngineSummary(e)
       /\ hist' = IF Len(h) > MaxCycles THEN Tail(h) ELSE h
       /\ UNCHANGED <<cfg, faulted, rules, now, thrVars>>

InitCycle ==
    /\ InitController
    /\ InitThreads
    /\ \E g \in EngineGraphs : cfg.pins = g.pins /\ cfg.deps = g.deps
    /\ cfg.fail_safe = OFF
    /\ \E d \in Pins(cfg) : rules = <<Hot(d, ON)>>
    /\ overrides = EmptyMap
    /\ now = 0

NextCycle ==
    \/ \E r \in ReadingLists : CycleCall(r, 12 * 60)
    \/ \E s \in RelayState : SetManualOverrideCall(rules[1].device_id, s, 1, 0)
    \/ Tick

SpecCycle == InitCycle /\ [][NextCycle]_vars

\* The same cycles with an operator who also clears the override.
NextResume ==
    \/ \E r \in ReadingLists : CycleCall(r, 12 * 60)
    \/ \E s \in RelayState : SetManualOverrideCall(rules[1].device_id, s, 1, 0)
    \/ ClearManualOverrideCall(rules[1].device_id)
    \/ Tick

SpecResume == InitCycle /\ [][NextResume]_vars

\* ------------------------------------------------------------------ rule evaluation

\* Rules as _build_rules compiles them, evaluated on their own: threshold
\* rules of one or two conditions, and schedule rules over the times below.
EvalConditions ==
    {[measurement |-> m, operator |-> o, threshold |-> 25] :
        m \in {"temperature", "humidity"}, o \in {">", "<="}}

\* 00:00, 02:00, 06:00, 12:00, 22:00 and 23:30, in minutes of the day.
EvalTimes == {0, 2 * 60, 6 * 60, 12 * 60, 22 * 60, 23 * 60 + 30}

EvalRules ==
    {Rule("t1", "fan", a, "threshold", <<c>>, <<>>) :
        a \in RelayState, c \in EvalConditions}
    \cup {Rule("t2", "fan", a, "threshold", <<c1, c2>>, <<>>) :
        a \in RelayState, c1 \in EvalConditions, c2 \in EvalConditions}
    \cup {Rule("s", "fan", a, "schedule", <<>>, << [start |-> s, end |-> e] >>) :
        a \in RelayState, s \in EvalTimes, e \in EvalTimes}

EvalReadings ==
    {Reading("temperature", 24), Reading("temperature", 26), Reading("humidity", 25)}

\* The readings of one cycle: none, one or two.
EvalReadingLists ==
    {<<>>} \cup {<<r>> : r \in EvalReadings}
           \cup {<<r1, r2>> : r1 \in EvalReadings, r2 \in EvalReadings}

InitEval ==
    /\ InitController
    /\ InitThreads
    /\ cfg.pins = CfgPlain.pins /\ cfg.deps = CfgPlain.deps
    /\ cfg.fail_safe = OFF /\ ~cfg.nc_wiring
    /\ \E r \in EvalRules : rules = <<r>>
    /\ overrides = EmptyMap
    /\ now = 0

\* rule.evaluate(SensorSnapshot(readings)) at time of day tod.
EvaluateCall(readings, tod) ==
    /\ last' = [NoCall EXCEPT !.op = "evaluate", !.readings = readings, !.tod = tod,
                               !.value = evaluate(rules[1], SensorSnapshot(readings), tod)]
    /\ UNCHANGED <<ctlVars, hist, faulted, engVars, thrVars>>

NextEval == \E r \in EvalReadingLists, tod \in EvalTimes : EvaluateCall(r, tod)

SpecEval == InitEval /\ [][NextEval]_vars

\* ------------------------------------------------------------------ threads

\* main.py runs the polling loop in the main thread and the Flask API
\* (threaded=True) in a daemon thread; both reach the same RelayController and
\* the controller takes no lock.  A thread switch can fall between any two
\* steps of a call.
Running(t) == frames[t].f.pc \notin {"idle", "done", "raised"}

Begin(t, device_id, state) ==
    /\ frames[t].f.pc = "idle"
    /\ frames' = [frames EXCEPT ![t] = [f |-> NewFrame("set_state", device_id, state, 0),
                                         pre |-> states, preGpio |-> gpio]]
    /\ seen' = NotSeen
    /\ last' = NoCall
    /\ UNCHANGED <<ctlVars, hist, faulted, engVars, loop>>

StepThread(t) ==
    /\ Running(t)
    /\ LET m == Step(cfg, [f |-> frames[t].f, states |-> states, gpio |-> gpio])
       IN /\ states' = m.states
          /\ gpio' = m.gpio
          /\ frames' = [frames EXCEPT ![t].f = m.f]
    /\ UNCHANGED <<cfg, obsVars, engVars, seen, loop>>

End(t) ==
    /\ Finished(frames[t].f)
    /\ last' = Summary(frames[t].f, frames[t].pre, frames[t].preGpio)
    /\ frames' = [frames EXCEPT ![t] = IdleFrame]
    /\ UNCHANGED <<ctlVars, hist, faulted, engVars, seen, loop>>

\* get_relays: get_all_states() while other threads may be inside set_state.
\* `before` and `after` are the controller state at the start of the call in
\* flight and the state that call ends with.
Read(t) ==
    /\ frames[t].f.pc = "idle"
    /\ ~seen.taken
    /\ LET busy == {w \in Threads : Running(w)}
       IN /\ Cardinality(busy) <= 1
          /\ seen' = [taken |-> TRUE,
                       snapshot |-> get_all_states(states),
                       before |-> IF busy = {} THEN states
                                  ELSE frames[CHOOSE w \in busy : TRUE].pre,
                       after |-> IF busy = {} THEN states
                                 ELSE Run(cfg, [f |-> frames[CHOOSE w \in busy : TRUE].f,
                                                states |-> states, gpio |-> gpio]).states]
    /\ UNCHANGED <<ctlVars, obsVars, engVars, frames, loop>>

InitReader ==
    /\ Init
    /\ cfg.fail_safe = OFF

NextReader ==
    \/ \E d \in Pins(cfg), s \in RelayState : Begin("poll", d, s)
    \/ StepThread("poll")
    \/ End("poll")
    \/ Read("api")

SpecReader == InitReader /\ [][NextReader]_vars

\* Two writers: the polling thread (process -> set_state) and an API request
\* thread, each inside set_state on the same controller.
WriterGraphs == {CfgPair}

InitWriters ==
    /\ Init
    /\ \E g \in WriterGraphs : cfg.pins = g.pins /\ cfg.deps = g.deps
    /\ cfg.fail_safe = OFF
    /\ ~cfg.nc_wiring

NextWriters ==
    \/ \E d \in Pins(cfg), s \in RelayState : Begin("poll", d, s)
    \/ \E d \in Pins(cfg), s \in RelayState : Begin("api", d, s)
    \/ StepThread("poll")
    \/ StepThread("api")
    \/ End("poll")
    \/ End("api")

SpecWriters == InitWriters /\ [][NextWriters]_vars

\* ------------------------------------------------------------------ engine threads

\* The polling thread inside process() and an API thread inside
\* set_manual_override, on the same controller and override table; neither
\* takes a lock, so a thread switch can fall between any two steps.
IdleEngine ==
    [p |-> [NewEngine("idle", "-", "-", 0, <<>>, 0, 0) EXCEPT !.pc = "idle"], f |-> NoFrame]

EngineRunning(t) == frames[t].p.pc \notin {"idle", "done", "raised"}

\* Thread t enters an engine call; its frame is built on entry.
BeginEngine(t, op, device_id, state, duration, readings, tod) ==
    /\ frames[t].p.pc = "idle"
    /\ frames' = [frames EXCEPT ![t] =
                     [p |-> NewEngine(op, device_id, state, duration, readings, tod, 0),
                      f |-> NoFrame]]
    /\ UNCHANGED <<ctlVars, obsVars, engVars, seen, loop>>

StepEngine(t) ==
    /\ EngineRunning(t)
    /\ LET e == EngineStep(cfg, rules,
                            [p |-> frames[t].p, f |-> frames[t].f, states |-> states,
                             gpio |-> gpio, overrides |-> overrides], now)
       IN /\ states' = e.states
          /\ gpio' = e.gpio
          /\ overrides' = e.overrides
          /\ frames' = [frames EXCEPT ![t] = [p |-> e.p, f |-> e.f]]
    /\ UNCHANGED <<cfg, obsVars, rules, now, seen, loop>>

InitRace ==
    /\ InitController
    /\ cfg.pins = CfgPlain.pins /\ cfg.deps = CfgPlain.deps
    /\ cfg.fail_safe = OFF
    /\ frames = [t \in Threads |-> IdleEngine]
    /\ seen = NotSeen
    /\ loop = NoLoop
    /\ \E d \in Pins(cfg) : rules = <<Hot(d, ON)>>
    /\ overrides = EmptyMap
    /\ now = 0

NextRace ==
    \/ \E r \in ReadingLists :
          BeginEngine("poll", "process", "-", "-", 0, r, 12 * 60)
    \/ \E d \in Pins(cfg), s \in RelayState :
          BeginEngine("api", "set_manual_override", d, s, 1, <<>>, 0)
    \/ StepEngine("poll")
    \/ StepEngine("api")

SpecRace == InitRace /\ [][NextRace]_vars

\* ------------------------------------------------------------------ the polling loop

\* DataCollectorService.run_forever on the main thread: one cycle is run_once
\* (initialize, poll, persist, process) inside try/except, then the sleep.
\* Times are whole ticks of perf_counter.
MaxElapsed == 3

Intervals == {1, 2}

\* Readings carry the cycle that produced them in `timestamp`, modulo CycleTags.
CycleTags == 3

SensorOrder == <<"mcp9808_1", "si7021_1">>

SensorIds == {SensorOrder[i] : i \in 1..Len(SensorOrder)}

\* sensor.read() raised.
Fail == [ok |-> FALSE, readings |-> <<>>]

Ok(readings) == [ok |-> TRUE, readings |-> readings]

SensorReading(sensor_id, measurement, value, timestamp) ==
    [sensor_id |-> sensor_id, measurement |-> measurement, value |-> value,
     timestamp |-> timestamp]

\* What sensor.read() can do in cycle `tag`: raise, or return its readings.
read(sensor_id, tag) ==
    IF sensor_id = "mcp9808_1"
    THEN {Fail} \cup {Ok(<<SensorReading(sensor_id, "temperature", v, tag)>>) :
                          v \in {24, 26}}
    ELSE {Fail, Ok(<<SensorReading(sensor_id, "humidity", 60, tag)>>)}

ReadOutcomes(tag) ==
    {o \in [SensorIds -> UNION {read(s, tag) : s \in SensorIds}] :
        \A s \in SensorIds : o[s] \in read(s, tag)}

\* SensorManager.poll: every sensor is read in order; a failed read adds
\* nothing and marks the sensor unhealthy, a good one marks it healthy.
RECURSIVE poll_readings(_, _)
poll_readings(outcome, i) ==
    IF i > Len(SensorOrder) THEN <<>>
    ELSE (IF outcome[SensorOrder[i]].ok THEN outcome[SensorOrder[i]].readings ELSE <<>>)
            \o poll_readings(outcome, i + 1)

poll_health(outcome) == [s \in SensorIds |-> outcome[s].ok]

\* As run_forever_except, but with no try/except around run_once.
run_forever_uncaught(L, err) == [L EXCEPT !.pc = "crashed", !.error = err]

\* run_forever's `except Exception`: the failure is logged and the loop goes
\* on to compute the sleep.
run_forever_except(L, err) == [L EXCEPT !.pc = "elapsed", !.error = err]

\* As run_once_poll, but an empty batch is carried on like any other.
run_once_poll_always(L, outcome) ==
    [L EXCEPT !.outcome = outcome,
              !.readings = poll_readings(outcome, 1),
              !.health = poll_health(outcome),
              !.steps = Append(L.steps, "collect"),
              !.pc = "persist"]

\* run_once, lines 54-57: poll, and return 0 when nothing was read.
run_once_poll(L, outcome) ==
    LET readings == poll_readings(outcome, 1)
    IN [L EXCEPT !.outcome = outcome,
                 !.readings = readings,
                 !.health = poll_health(outcome),
                 !.steps = Append(L.steps, "collect"),
                 !.pc = IF readings = <<>> THEN "elapsed" ELSE "persist"]

\* As run_once_persist, but a failed commit is swallowed.
run_once_persist_swallow(L, ok) ==
    [L EXCEPT !.handed = L.readings,
              !.stored = IF ok THEN L.readings ELSE <<>>,
              !.steps = Append(L.steps, "persist"),
              !.pc = "process"]

\* run_once, lines 59-61, with get_session: save_readings takes the batch,
\* leaving the with-block commits it; a failure rolls back and is re-raised.
run_once_persist(L, ok) ==
    IF ok
    THEN [L EXCEPT !.handed = L.readings,
                   !.stored = L.readings,
                   !.steps = Append(L.steps, "persist"),
                   !.pc = "process"]
    ELSE run_forever_except([L EXCEPT !.handed = L.readings], "storage")

\* As sleep_for, without the clamp.
sleep_for_unclamped(interval, elapsed) == interval - elapsed

\* run_forever, line 75.
sleep_for(interval, elapsed) ==
    IF interval - elapsed > 0 THEN interval - elapsed ELSE 0

NewLoop(interval) ==
    [pc |-> "top", interval |-> interval, initialized |-> FALSE, cycle |-> 0,
     health |-> [s \in SensorIds |-> TRUE], outcome |-> <<>>, readings |-> <<>>,
     handed |-> <<>>, stored |-> <<>>, processed |-> <<>>, steps |-> <<>>,
     error |-> "none", prior |-> "none", elapsed |-> 0, sleep_time |-> 0,
     cancel |-> FALSE]

\* `while True`, line 69: the timer starts and run_once is entered; nothing of
\* the previous cycle is carried over.
LoopTop ==
    /\ loop.pc = "top"
    /\ loop' = [loop EXCEPT !.pc = "init", !.outcome = <<>>, !.readings = <<>>,
                            !.handed = <<>>, !.stored = <<>>, !.processed = <<>>,
                            !.steps = <<>>, !.error = "none",
                            !.elapsed = 0, !.sleep_time = 0]
    /\ UNCHANGED <<ctlVars, obsVars, engVars, frames, seen>>

\* run_once, lines 52-53, and initialize: load_from_config either raises (a
\* sensor class that cannot be built) or finishes, having marked unhealthy
\* every sensor whose initialize() failed.
LoopInit ==
    /\ loop.pc = "init"
    /\ IF loop.initialized
       THEN loop' = [loop EXCEPT !.pc = "poll"]
       ELSE \/ \E h \in [SensorIds -> BOOLEAN] :
                  loop' = [loop EXCEPT !.pc = "poll", !.initialized = TRUE, !.health = h]
            \/ loop' = run_forever_except(loop, "init")
    /\ UNCHANGED <<ctlVars, obsVars, engVars, frames, seen>>

LoopPoll ==
    /\ loop.pc = "poll"
    /\ \E o \in ReadOutcomes(loop.cycle) : loop' = run_once_poll(loop, o)
    /\ UNCHANGED <<ctlVars, obsVars, engVars, frames, seen>>

LoopPersist ==
    /\ loop.pc = "persist"
    /\ \E ok \in BOOLEAN : loop' = run_once_persist(loop, ok)
    /\ UNCHANGED <<ctlVars, obsVars, engVars, frames, seen>>

\* run_once, lines 62-63: process(readings) at 23:30; what it raises leaves
\* run_once.
LoopProcess ==
    /\ loop.pc = "process"
    /\ IF rules = <<>>
       THEN /\ loop' = [loop EXCEPT !.pc = "elapsed"]
            /\ UNCHANGED <<states, gpio, overrides>>
       ELSE \E failAt \in EngineFaults :
              LET e == EngineCall(cfg, rules, states, gpio, overrides, now,
                                  NewEngine("process", "-", "-", 0, loop.readings,
                                            23 * 60 + 30, failAt))
                  L == [loop EXCEPT !.processed = loop.readings,
                                    !.steps = Append(loop.steps, "process")]
              IN /\ states' = e.states
                 /\ gpio' = e.gpio
                 /\ overrides' = e.overrides
                 /\ loop' = IF e.p.result = "ok" THEN [L EXCEPT !.pc = "elapsed"]
                            ELSE run_forever_except(L, "process")
    /\ UNCHANGED <<cfg, obsVars, rules, now, frames, seen>>

\* Lines 74-75.
LoopElapsed ==
    /\ loop.pc = "elapsed"
    /\ \E d \in 0..MaxElapsed :
          loop' = [loop EXCEPT !.pc = "sleep", !.elapsed = d,
                               !.sleep_time = sleep_for(loop.interval, d)]
    /\ UNCHANGED <<ctlVars, obsVars, engVars, frames, seen>>

\* Line 76: time.sleep returns and the loop is at `while True` again.
LoopSleep ==
    /\ loop.pc = "sleep"
    /\ loop' = [loop EXCEPT !.pc = "top", !.cycle = (loop.cycle + 1) % CycleTags,
                            !.prior = loop.error]
    /\ UNCHANGED <<ctlVars, obsVars, engVars, frames, seen>>

\* Somebody asks the service to shut down.  run_forever reads no flag, event
\* or signal handler, so the request is only recorded.
RequestShutdown ==
    /\ loop.pc # "off"
    /\ ~loop.cancel
    /\ loop' = [loop EXCEPT !.cancel = TRUE]
    /\ UNCHANGED <<ctlVars, obsVars, engVars, frames, seen>>

LoopNext ==
    LoopTop \/ LoopInit \/ LoopPoll \/ LoopPersist \/ LoopProcess \/ LoopElapsed \/ LoopSleep

InitPoll ==
    /\ InitController
    /\ cfg.pins = CfgPlain.pins /\ cfg.deps = CfgPlain.deps
    /\ cfg.fail_safe = OFF
    /\ ~cfg.nc_wiring
    /\ frames = [t \in Threads |-> IdleFrame]
    /\ seen = NotSeen
    /\ \E i \in Intervals : loop = NewLoop(i)
    /\ rules \in {<<Hot("fan", ON)>>, <<Night("fan", ON)>>}
    /\ overrides = EmptyMap
    /\ now = 0

NextPoll ==
    \/ LoopTop
    \/ LoopInit
    \/ LoopPoll
    \/ LoopPersist
    \/ LoopProcess
    \/ LoopElapsed
    \/ LoopSleep
    \/ RequestShutdown

SpecPoll == InitPoll /\ [][NextPoll]_vars

\* The main thread is always scheduled again: a step of the loop that can be
\* taken is eventually taken.
InitPollLive ==
    /\ InitPoll
    /\ ~cfg.nc_wiring
    /\ loop.interval = 2
    /\ rules = <<Hot("fan", ON)>>

SpecPollLive == InitPollLive /\ [][LoopNext]_vars /\ WF_vars(LoopNext)

\* ------------------------------------------------------------------ the dependency graph

Requires(c, d) == SeqToSet(_get_requirements(c, d))

RequiredBy(c, d) == SeqToSet(_get_dependents(c, d))

\* A requires B iff B.required_by contains A, and every entry names registered devices.
Consistent(c) ==
    /\ \A i \in 1..Len(c.deps) :
          {c.deps[i].id} \cup SeqToSet(c.deps[i].requires) \cup SeqToSet(c.deps[i].required_by)
              \subseteq Pins(c)
    /\ \A a \in Pins(c), b \in Pins(c) : (b \in Requires(c, a)) <=> (a \in RequiredBy(c, b))

RECURSIVE RequiresWithin(_, _, _)
RequiresWithin(c, S, n) ==
    IF n = 0 THEN S
    ELSE RequiresWithin(c, S \cup UNION {Requires(c, x) : x \in S}, n - 1)

\* Everything d requires, directly or indirectly.
RequiresClosure(c, d) == RequiresWithin(c, Requires(c, d), Len(c.pins))

Acyclic(c) == \A d \in Pins(c) : d \notin RequiresClosure(c, d)

LastSetState(s, result) == last.op = "set_state" /\ last.st = s /\ last.result = result

WrittenAt(device_id) == {i \in 1..Len(last.writes) : last.writes[i][1] = device_id}

\* ------------------------------------------------------------------ properties

\* C1: on an acyclic, mutually consistent graph and without hardware faults,
\* after any sequence of completed set_state and fail_safe calls every ON
\* device has every device it requires ON.
C1_RequiresHeld ==
    (Acyclic(cfg) /\ Consistent(cfg) /\ ~faulted) =>
        \A d \in Pins(cfg) : states[d] = ON =>
            \A r \in Requires(cfg, d) : StateOf(states, r) = ON

\* C2: a successful set_state(d, ON) for a device with requires = {r} ends with
\* r and d ON; d's write is the call's last write, and r's write (made when r
\* was not ON) comes before it.
C2_RequiredOnFirst ==
    LastSetState(ON, "ok") =>
        \A r \in Pins(cfg) : Requires(cfg, last.dev) = {r} =>
            /\ states[r] = ON
            /\ states[last.dev] = ON
            /\ WrittenAt(last.dev) = {Len(last.writes)}
            /\ last.pre[r] # ON => WrittenAt(r) # {}
            /\ \A i \in WrittenAt(r) : i < Len(last.writes)

C2_Witness ==
    /\ LastSetState(ON, "ok")
    /\ \E r \in Pins(cfg) : Requires(cfg, last.dev) = {r} /\ last.pre[r] = OFF

\* C3: for a chain d requires r, r requires q, all OFF, one set_state(d, ON)
\* ends with q, r and d all ON.
C3_OnCascadeTransitive ==
    \A d \in Pins(cfg), r \in Pins(cfg), q \in Pins(cfg) :
        ( /\ r \in Requires(cfg, d) /\ q \in Requires(cfg, r)
          /\ LastSetState(ON, "ok") /\ last.dev = d
          /\ last.pre[d] = OFF /\ last.pre[r] = OFF /\ last.pre[q] = OFF )
        => (states[q] = ON /\ states[r] = ON /\ states[d] = ON)

\* C4: for a chain d requires r, r requires q, all ON, one set_state(q, OFF)
\* ends with q, r and d all OFF.
C4_OffCascadeTransitive ==
    \A d \in Pins(cfg), r \in Pins(cfg), q \in Pins(cfg) :
        ( /\ r \in Requires(cfg, d) /\ q \in Requires(cfg, r)
          /\ LastSetState(OFF, "ok") /\ last.dev = q
          /\ last.pre[d] = ON /\ last.pre[r] = ON /\ last.pre[q] = ON )
        => (states[q] = OFF /\ states[r] = OFF /\ states[d] = OFF)

HistEnds(calls) ==
    /\ Len(hist) >= Len(calls)
    /\ SubSeq(hist, Len(hist) - Len(calls) + 1, Len(hist)) = calls

\* C5: for a supply relay p with auto_off and required_by = {d1, d2}: after
\* set_state(d1, ON); set_state(d2, ON); set_state(d1, OFF) p is ON, and after
\* set_state(d2, OFF) as well p is OFF.
C5_SharedRelease ==
    \A p \in SharedSupplies(cfg), d1 \in Pins(cfg), d2 \in Pins(cfg) :
        (d1 # d2 /\ RequiredBy(cfg, p) = {d1, d2}) =>
            /\ HistEnds(<< <<d1, ON>>, <<d2, ON>>, <<d1, OFF>> >>) => states[p] = ON
            /\ HistEnds(<< <<d1, ON>>, <<d2, ON>>, <<d1, OFF>>, <<d2, OFF>> >>) => states[p] = OFF

C5_Witness ==
    \E p \in SharedSupplies(cfg), d1 \in Pins(cfg), d2 \in Pins(cfg) :
        /\ d1 # d2 /\ RequiredBy(cfg, p) = {d1, d2}
        /\ HistEnds(<< <<d1, ON>>, <<d2, ON>>, <<d1, OFF>>, <<d2, OFF>> >>)
        /\ last.pre[p] = ON

\* C6: a set_state(d, s) that repeats the call before it leaves every logical
\* state and every output line as the first call left them.
C6_Idempotent == last.repeat => (states = last.pre /\ gpio = last.preGpio)

\* C9: set_state and get_state on an unregistered device report UnknownDevice,
\* write nothing to the hardware and leave every logical state unchanged.
C9_UnknownDevice ==
    (last.op \in {"set_state", "get_state"} /\ last.dev \notin Pins(cfg)) =>
        /\ last.result = "UnknownDevice"
        /\ last.nw = 0 /\ last.writes = <<>>
        /\ states = last.pre /\ gpio = last.preGpio

ActiveAt(ov, d, t) == d \in DOMAIN ov /\ t < ov[d].expires_at

\* C7: while an override for d is active, process() skips every rule whose
\* target is d: it issues no set_state for d and leaves the override in
\* place, and a process() that issues no set_state changes no device, so d
\* keeps the state it has.
C7_OverridePrecedence ==
    [][ last'.op = "process" =>
            \A d \in DOMAIN overrides : ActiveAt(overrides, d, now) =>
                /\ \A k \in 1..Len(last'.calls) : last'.calls[k][1] # d
                /\ d \in DOMAIN overrides' /\ overrides'[d] = overrides[d]
                /\ last'.calls = <<>> => (states' = states /\ gpio' = gpio) ]_vars

\* A process() whose rule for d holds and asks for the state d is not in,
\* under an active override that forces the state d is in.
C7_Witness ==
    /\ last.op = "process" /\ last.result = "ok"
    /\ \E i \in 1..Len(rules) :
          LET d == rules[i].device_id
          IN /\ ActiveAt(overrides, d, now)
             /\ overrides[d].state = states[d]
             /\ last.desired[i] = rules[i].action_on_true
             /\ last.desired[i] # states[d]

\* C8: a get_all_states() taken while another thread executes set_state returns
\* the state before the whole cascade or the state after it, never a state
\* in between.
C8_AtomicCascade == seen.taken => seen.snapshot \in {seen.before, seen.after}

C9_Witness == last.op = "set_state" /\ last.dev = Ghost /\ last.st = ON

\* C10: a failed hardware write ends the call with HardwareFault, nothing is
\* written after it, and the device keeps the logical state (and line level)
\* it had: get_state returns that state, not the attempted one.
C10_FaultKeepsState ==
    last.result = "HardwareFault" =>
        /\ last.failed \in Pins(cfg)
        /\ states[last.failed] = last.pre[last.failed]
        /\ gpio[last.failed] = last.preGpio[last.failed]
        /\ get_state(cfg, states, last.failed).value = last.pre[last.failed]
        /\ Len(last.writes) = last.nw - 1

C10_Witness ==
    /\ last.op = "set_state" /\ last.result = "HardwareFault"
    /\ last.attempt # last.pre[last.failed]

\* C11: a set_state call in which a hardware write fails leaves the logical
\* state of every device as it was before the call.
C11_FailsOutright ==
    (last.op = "set_state" /\ last.result = "HardwareFault") => states = last.pre

\* C12: a fail_safe() that returns leaves every registered device in the
\* configured fail-safe state, having made exactly one raw write per device,
\* in registry order, and no other write.
C12_FailSafeAll ==
    (last.op = "fail_safe" /\ last.result = "ok") =>
        /\ \A d \in Pins(cfg) : states[d] = cfg.fail_safe
        /\ Len(last.writes) = Len(cfg.pins)
        /\ \A i \in 1..Len(last.writes) : last.writes[i][1] = cfg.pins[i]
        /\ last.nw = Len(cfg.pins)

\* fail_safe() on a graph with dependencies, from a state where one device is
\* already in the fail-safe state and another is not.
C12_Witness ==
    /\ last.op = "fail_safe" /\ last.result = "ok"
    /\ cfg.deps # <<>>
    /\ \E d \in Pins(cfg), e \in Pins(cfg) :
          last.pre[d] # cfg.fail_safe /\ last.pre[e] = cfg.fail_safe

\* The line levels of the relay module: an active-low module energizes the
\* coil at LOW.
Energized(c) == IF c.active_low THEN LOW ELSE HIGH

DeEnergized(c) == IF c.active_low THEN HIGH ELSE LOW

\* The level the wiring mode asks for: normally-closed wiring has the device
\* ON with the coil de-energized, normally-open wiring with it energized.
LineLevel(c, state) ==
    IF c.nc_wiring
    THEN (IF state = ON THEN DeEnergized(c) ELSE Energized(c))
    ELSE (IF state = ON THEN Energized(c) ELSE DeEnergized(c))

\* C13: after a successful set_state(d, s), the line of d and of every device
\* the cascade wrote is at the level the wiring mode gives for the device's
\* logical state, and that is the level the call wrote.
C13_WiringInversion ==
    (last.op = "set_state" /\ last.result = "ok") =>
        /\ states[last.dev] = last.st
        /\ WrittenAt(last.dev) # {}
        /\ \A i \in 1..Len(last.writes) :
              LET d == last.writes[i][1]
              IN /\ gpio[d] = LineLevel(cfg, states[d])
                 /\ last.writes[i][2] = LineLevel(cfg, states[d])

\* A set_state(d, ON) with a cascade under normally-closed wiring.
C13_Witness ==
    /\ LastSetState(ON, "ok")
    /\ cfg.nc_wiring
    /\ Len(last.writes) >= 2

\* C14: an override whose expiry has been reached (now >= expires_at, as
\* for one installed with duration 0) is not returned by get_override, is
\* removed from the table by get_override and by cleanup, is gone after the
\* next process(), and that process() skips no rule of the device: a
\* device with a single rule ends in the state the rule asks for.
C14_OverrideExpiry ==
    [][ \A d \in DOMAIN overrides : now >= overrides[d].expires_at =>
            /\ ~ get_override(overrides, d, now).found
            /\ d \notin DOMAIN get_override(overrides, d, now).ov
            /\ d \notin DOMAIN cleanup(overrides, now)
            /\ last'.op = "process" =>
                  /\ d \notin DOMAIN overrides'
                  /\ \A i \in 1..Len(rules) :
                        rules[i].device_id = d => i \notin last'.skipped
                  /\ (last'.result = "ok" /\ Len(rules) = 1 /\ rules[1].device_id = d)
                        => states'[d] = last'.desired[1] ]_vars

\* A process() that found an expired override for the device of its only
\* rule, evicted it and switched the device to what the rule asks for.
C14_Witness ==
    /\ last.op = "process" /\ last.result = "ok"
    /\ Len(rules) = 1
    /\ rules[1].device_id \in last.evicted
    /\ last.calls = << <<rules[1].device_id, last.desired[1]>> >>
    /\ states[rules[1].device_id] = last.desired[1]

Decided(l) == {i \in 1..Len(l.desired) : i \notin l.skipped /\ l.desired[i] \in RelayState}

\* C19: every set_state that process() issues is for a rule it decided,
\* with that rule's desired state, and that state differs from the state the
\* device has at that moment; when every decided rule asks for the state its
\* device already has, process() issues no set_state, writes nothing to the
\* hardware and changes no device.
C19_OnlyWhenDifferent ==
    [][ last'.op = "process" =>
            /\ \A k \in 1..Len(last'.calls) :
                  \E i \in Decided(last') :
                      last'.calls[k] = <<rules[i].device_id, last'.desired[i]>>
            /\ Len(last'.calls) >= 1 => last'.calls[1][2] # states[last'.calls[1][1]]
            /\ Len(last'.calls) >= 2 =>
                  last'.calls[2][2] #
                      set_state(cfg, states, gpio, last'.calls[1][1], last'.calls[1][2], 0)
                          .states[last'.calls[2][1]]
            /\ (\A i \in Decided(last') : last'.desired[i] = states[rules[i].device_id]) =>
                  /\ last'.calls = <<>> /\ last'.nw = 0
                  /\ states' = states /\ gpio' = gpio ]_vars

\* A process() that decided a rule whose desired state the device already
\* had, and issued no set_state.
C19_Witness ==
    /\ last.op = "process" /\ last.result = "ok"
    /\ last.calls = <<>> /\ last.nw = 0
    /\ \E i \in Decided(last) : last.desired[i] = states[rules[i].device_id]

\* C20: when two rules target the same device and neither is skipped for an
\* override, the device ends a completed process() in the state the
\* later-declared rule asks for.
C20_LastWriteWins ==
    (last.op = "process" /\ last.result = "ok") =>
        \A i \in Decided(last), j \in Decided(last) :
            (i < j /\ rules[i].device_id = rules[j].device_id
               /\ ~ \E k \in Decided(last) : k > j /\ rules[k].device_id = rules[j].device_id)
            => states[rules[j].device_id] = last.desired[j]

\* Two rules for one device that disagree, both applied in one process().
C20_Witness ==
    /\ last.op = "process" /\ last.result = "ok"
    /\ \E i \in Decided(last), j \in Decided(last) :
          /\ i < j /\ rules[i].device_id = rules[j].device_id
          /\ last.desired[i] # last.desired[j]
          /\ Len(last.calls) = 2

\* Some reading of the cycle carries the condition's measurement and
\* satisfies its comparison.
SatisfiedBy(cond, readings) ==
    \E k \in 1..Len(readings) :
        /\ readings[k].measurement = cond.measurement
        /\ _compare(readings[k].value, cond.operator, cond.threshold)

\* C16: a threshold rule evaluates to action_on_true iff at least one of its
\* conditions is satisfied by at least one value reported in the cycle for
\* that condition's measurement, and to the other state otherwise.
C16_ThresholdExistential ==
    (last.op = "evaluate" /\ rules[1].condition_type = "threshold") =>
        LET rule == rules[1]
            true == \E i \in 1..Len(rule.threshold_conditions) :
                        SatisfiedBy(rule.threshold_conditions[i], last.readings)
        IN /\ true => last.value = rule.action_on_true
           /\ ~true => /\ last.value \in RelayState
                       /\ last.value # rule.action_on_true

\* A rule of two conditions on different measurements whose first condition
\* no value satisfies and whose second condition is satisfied by the
\* second of two values only.
C16_Witness ==
    /\ last.op = "evaluate"
    /\ Len(rules[1].threshold_conditions) = 2
    /\ ~ SatisfiedBy(rules[1].threshold_conditions[1], last.readings)
    /\ Len(last.readings) = 2
    /\ last.readings[1].measurement = last.readings[2].measurement
    /\ ~ SatisfiedBy(rules[1].threshold_conditions[2], <<last.readings[1]>>)
    /\ SatisfiedBy(rules[1].threshold_conditions[2], <<last.readings[2]>>)
    /\ last.value = rules[1].action_on_true

\* C18: a schedule (start, end) is met at t iff start <= end and
\* start <= t <= end, or start > end and (t >= start or t <= end); so
\* (22:00, 06:00) is met at 23:30 and 02:00 and not at 12:00.
C18_ScheduleWraparound ==
    (last.op = "evaluate" /\ rules[1].condition_type = "schedule") =>
        LET start == rules[1].schedule_condition[1].start
            end == rules[1].schedule_condition[1].end
            t == last.tod
            met == \/ start <= end /\ start <= t /\ t <= end
                   \/ start > end /\ (t >= start \/ t <= end)
        IN /\ ScheduleCondition_is_met(rules[1].schedule_condition[1], t) <=> met
           /\ (last.value = rules[1].action_on_true) <=> met
           /\ (start = 22 * 60 /\ end = 6 * 60) =>
                 /\ t \in {23 * 60 + 30, 2 * 60} => met
                 /\ t = 12 * 60 => ~met

\* The schedule (22:00, 06:00) evaluated at 02:00.
C18_Witness ==
    /\ last.op = "evaluate" /\ rules[1].condition_type = "schedule"
    /\ rules[1].schedule_condition[1] = [start |-> 22 * 60, end |-> 6 * 60]
    /\ last.tod = 2 * 60
    /\ last.value = rules[1].action_on_true

\* The temperature values of a cycle's readings.
Temperatures(readings) ==
    {readings[k].value : k \in {j \in 1..Len(readings) : readings[j].measurement = "temperature"}}

Below(entry) ==
    /\ ~entry.skipped
    /\ Temperatures(entry.readings) # {}
    /\ \A v \in Temperatures(entry.readings) : v <= 25

Above(entry) ==
    /\ ~entry.skipped
    /\ \E v \in Temperatures(entry.readings) : v > 25

\* C17: for the rule temperature > 25 => ON, with no override on its device,
\* three consecutive process() calls with readings below, above and below
\* the threshold leave the device OFF, then ON, then OFF.
C17_NotSticky ==
    \A k \in 1..(Len(hist) - 2) :
        (Below(hist[k]) /\ Above(hist[k + 1]) /\ Below(hist[k + 2])) =>
            /\ hist[k].state = OFF
            /\ hist[k + 1].state = ON
            /\ hist[k + 2].state = OFF

\* Three cycles below, above, below, the last of which switched the device OFF.
C17_Witness ==
    /\ Len(hist) = 3
    /\ Below(hist[1]) /\ Above(hist[2]) /\ Below(hist[3])
    /\ hist[3].state = OFF /\ states[rules[1].device_id] = OFF
    /\ last.op = "process" /\ last.calls # <<>>

ValidState(body) == body # NoState /\ lower(body) \in {"on", "off"}

\* C27: a set-state request with an invalid state string is answered 400
\* without touching the controller or any device; one for an unknown device
\* is answered 404; one with a valid state for a registered device is
\* answered 200 and the device is in the requested state.
C27_TransportSetState ==
    last.op = "set_relay" =>
        /\ ~ValidState(last.st) =>
              (last.result = 400 /\ last.nw = 0 /\ states = last.pre /\ gpio = last.preGpio)
        /\ (ValidState(last.st) /\ last.dev \notin Pins(cfg)) => last.result = 404
        /\ (ValidState(last.st) /\ last.dev \in Pins(cfg)) =>
              /\ last.result = 200
              /\ state_name(states[last.dev]) = lower(last.st)

\* C28: after the emergency stop completes, every registered device is OFF,
\* whatever the fail-safe state, and every reported state is 'off'.
C28_EmergencyStop ==
    last.op = "all_relays_off" =>
        /\ last.result = 200
        /\ \A d \in Pins(cfg) : states[d] = OFF
        /\ DOMAIN last.value = Pins(cfg)
        /\ \A d \in Pins(cfg) : last.value[d] = "off"

Malformed(c, rs) ==
    \/ ~Acyclic(c)
    \/ ~Consistent(c)
    \/ \E i \in 1..Len(rs) : rs[i].device_id \notin Pins(c)

\* C25: a controller or rule engine constructed from a malformed
\* configuration never gets to run a set_state or a polling cycle's process().
C25_MalformedFailsStartup == Malformed(cfg, rules) => last.op = "none"

\* C29: during process() the logical state of a device with an active
\* override is not changed by any rule, including through the cascade of a
\* set_state issued for a rule that targets another device.
C29_NoFightThroughCascade ==
    [][ last'.op = "process" =>
            \A d \in DOMAIN overrides :
                (ActiveAt(overrides, d, now) /\ d \in Pins(cfg)) => states'[d] = states[d] ]_vars

\* C30: once a set_manual_override(d, s) that interleaved with a process()
\* has returned and the process() has ended, the override for d is active
\* only with get_state(d) = s.
C30_OverrideVersusInFlight ==
    ( /\ frames["api"].p.pc = "done"
      /\ frames["poll"].p.pc \in {"idle", "done", "raised"} ) =>
        LET d == frames["api"].p.dev
        IN ActiveAt(overrides, d, now) =>
              get_state(cfg, states, d).value = overrides[d].state

\* C21: the polling loop never ends: it is at `while True` again and again,
\* a cycle whose run_once raised (initialisation, persistence or rule
\* processing) is followed by another cycle, and every reading a cycle hands
\* to storage was read in that cycle.
C21_NoTerminalState ==
    /\ []<>(loop.pc = "top")
    /\ (loop.error # "none") ~> (loop.pc = "top" /\ loop.prior # "none")
    /\ [](loop.pc # "crashed")
    /\ [](loop.pc # "top" =>
            \A i \in 1..Len(loop.handed) : loop.handed[i].timestamp = loop.cycle)

\* The cycle after one whose commit failed has handed its own batch to storage.
C21_Witness == loop.prior = "storage" /\ loop.handed # <<>>

Range(q) == {q[i] : i \in 1..Len(q)}

\* run_once has returned normally.
Returned == loop.pc \in {"elapsed", "sleep"} /\ loop.error = "none"

ReadingsOf(sensor_id) == SelectSeq(loop.readings, LAMBDA r : r.sensor_id = sensor_id)

\* C22: when run_once has polled, a sensor whose read failed has no reading in
\* the batch and is unhealthy, every other sensor's readings are in the batch,
\* and a run_once that returns normally has invoked process(), also when no
\* sensor could be read.
C22_SensorFailureTolerated ==
    /\ "collect" \in Range(loop.steps) =>
          \A s \in SensorIds :
              IF loop.outcome[s].ok
              THEN ReadingsOf(s) = loop.outcome[s].readings /\ loop.health[s]
              ELSE ReadingsOf(s) = <<>> /\ ~loop.health[s]
    /\ Returned => "process" \in Range(loop.steps)

\* C23: the steps of a cycle are a prefix of collect, persist, process, and
\* process() is invoked only with the batch polled in this cycle, after that
\* batch was handed to save_readings and committed.
C23_CycleOrdering ==
    /\ \E n \in 0..3 : loop.steps = SubSeq(<<"collect", "persist", "process">>, 1, n)
    /\ "process" \in Range(loop.steps) =>
          /\ loop.readings = poll_readings(loop.outcome, 1)
          /\ loop.handed = loop.readings
          /\ loop.stored = loop.readings
          /\ loop.processed = loop.readings

\* A cycle that collected, persisted and processed a batch.
C23_Witness ==
    /\ loop.steps = <<"collect", "persist", "process">>
    /\ loop.readings # <<>>

\* C24: the sleep is never negative, is the interval less the cycle's duration
\* when the cycle was shorter than the interval, and 0 otherwise.
C24_SleepClamped ==
    loop.pc = "sleep" =>
        /\ loop.sleep_time >= 0
        /\ loop.elapsed < loop.interval => loop.sleep_time = loop.interval - loop.elapsed
        /\ loop.elapsed >= loop.interval => loop.sleep_time = 0

\* A cycle that took longer than the interval.
C24_Witness == loop.pc = "sleep" /\ loop.elapsed > loop.interval

\* C26: once a shutdown has been requested, the loop does not go from its
\* sleep into another cycle.
C26_Cancellable ==
    [][ (loop.cancel /\ loop.pc = "sleep") => loop'.pc # "top" ]_vars

\* C31: whenever no thread is inside set_state, every ON device has every
\* device it requires ON, whatever the interleaving of the two writers' calls
\* was.
C31_ConcurrentWriters ==
    (\A t \in Threads : frames[t].f.pc = "idle") =>
        \A d \in Pins(cfg) : states[d] = ON =>
            \A r \in Requires(cfg, d) : StateOf(states, r) = ON

\* The device of the set_state call a process() ended in.
FailedDevice == last.calls[Len(last.calls)][1]

\* C32: when a process() ends in a failed set_state for one rule, every later
\* rule that targets another device, is not overridden and gives a decision
\* has still been applied: its device is in the rule's desired state.
C32_RuleIsolation ==
    (last.op = "process" /\ last.result # "ok" /\ last.calls # <<>>) =>
        \A i \in 1..Len(rules) :
            ( /\ \E k \in 1..(i - 1) : rules[k].device_id = FailedDevice
              /\ rules[i].device_id # FailedDevice
              /\ ~ActiveAt(overrides, rules[i].device_id, now)
              /\ last.desired[i] \in RelayState )
            => states[rules[i].device_id] = last.desired[i]

\* The devices the configuration gives auto_off.
AutoOff(c) == {c.deps[i].id : i \in {j \in 1..Len(c.deps) : c.deps[j].auto_off}}

\* C33: after a successful set_state(d, OFF), every registered auto_off device
\* none of whose required_by devices is ON is OFF.
C33_AutoOffComplete ==
    LastSetState(OFF, "ok") =>
        \A p \in AutoOff(cfg) \cap Pins(cfg) :
            (\A x \in RequiredBy(cfg, p) : StateOf(states, x) # ON) => states[p] = OFF

\* The override of device d has ended: the call before was
\* clear_manual_override(d), or the entry of d has expired.
OverrideEnded(d) ==
    \/ last.op = "clear_manual_override" /\ last.dev = d
    \/ d \in DOMAIN overrides /\ is_expired(overrides[d], now)

\* C34: with one rule, targeting d: a process() that follows the end of d's
\* override does not skip the rule, and when it returns d is in the rule's
\* desired state.
C34_AutomationResumes ==
    [][ ( /\ OverrideEnded(rules[1].device_id)
          /\ last'.op = "process" /\ last'.result = "ok" /\ last' # last ) =>
            /\ 1 \notin last'.skipped
            /\ last'.desired[1] \in RelayState
            /\ states'[rules[1].device_id] = last'.desired[1] ]_vars

\* A process() that evicted the expired override of the rule's device and
\* switched the device.
C34_Witness ==
    /\ last.op = "process" /\ last.result = "ok"
    /\ rules[1].device_id \in last.evicted
    /\ last.calls # <<>>
    /\ states[rules[1].device_id] = last.desired[1]

\* C35: as long as no hardware write has failed, the line of every device is
\* at the level its logical state and the wiring mode give (active-low,
\* normally-open: ON = LOW, OFF = HIGH; active-low, normally-closed: ON = HIGH,
\* OFF = LOW); before the first call every line is de-energized and every
\* logical state is ON under normally-closed wiring and OFF otherwise.
C35_LineMatchesState ==
    ~faulted =>
        /\ \A d \in Pins(cfg) :
              /\ gpio[d] = LineLevel(cfg, states[d])
              /\ (cfg.active_low /\ ~cfg.nc_wiring) =>
                    gpio[d] = (IF states[d] = ON THEN LOW ELSE HIGH)
              /\ (cfg.active_low /\ cfg.nc_wiring) =>
                    gpio[d] = (IF states[d] = ON THEN HIGH ELSE LOW)
        /\ last = NoCall =>
              \A d \in Pins(cfg) :
                  /\ gpio[d] = DeEnergized(cfg)
                  /\ states[d] = (IF cfg.nc_wiring THEN ON ELSE OFF)

\* A set_state(d, OFF) with a cascade under normally-closed, active-low wiring,
\* after which devices are ON and others OFF.
C35_Witness ==
    /\ ~faulted
    /\ LastSetState(OFF, "ok")
    /\ cfg.nc_wiring /\ cfg.active_low
    /\ Len(last.writes) >= 2
    /\ \E d \in Pins(cfg), e \in Pins(cfg) : states[d] = ON /\ states[e] = OFF

\* The auto_on relays whose required_by contains d.
AutoOnFor(c, d) ==
    {c.deps[i].id : i \in {j \in 1..Len(c.deps) :
        c.deps[j].auto_on /\ d \in SeqToSet(c.deps[j].required_by)}}

\* C36: a set_state(d, ON) call, finished or cut short by a hardware fault,
\* turns no device from ON to OFF and changes only d, the devices d requires
\* and the auto_on relays whose required_by contains d; a set_state(d, OFF)
\* call turns no device from OFF to ON.
C36_CascadeDirection ==
    last.op = "set_state" =>
        \A x \in Pins(cfg) :
            /\ last.st = ON =>
                  /\ StateOf(last.pre, x) = ON => StateOf(states, x) = ON
                  /\ StateOf(states, x) # StateOf(last.pre, x) =>
                        x \in {last.dev} \cup Requires(cfg, last.dev)
                                \cup AutoOnFor(cfg, last.dev)
            /\ last.st = OFF =>
                  (StateOf(last.pre, x) = OFF => StateOf(states, x) = OFF)

\* A set_state(d, ON) that enabled a required device and left another
\* auto_on relay OFF.
C36_Witness ==
    /\ LastSetState(ON, "ok")
    /\ \E r \in Requires(cfg, last.dev) : last.pre[r] = OFF /\ states[r] = ON
    /\ \E i \in 1..Len(cfg.deps) :
          /\ cfg.deps[i].auto_on
          /\ last.dev \notin SeqToSet(cfg.deps[i].required_by)
          /\ states[cfg.deps[i].id] = OFF

\* No device that some device requires itself requires a device.
DepthOne(c) == \A d \in Pins(c) : \A r \in Requires(c, d) : Requires(c, r) = {}

\* C37: on a mutually consistent graph of depth one and without hardware
\* faults, after any sequence of completed set_state and fail_safe calls
\* every ON device has every device it requires ON.
C37_DepthOneRequiresHeld ==
    (DepthOne(cfg) /\ Consistent(cfg) /\ ~faulted) =>
        \A d \in Pins(cfg) :
            StateOf(states, d) = ON =>
                \A r \in Requires(cfg, d) : StateOf(states, r) = ON

\* On such a graph, a set_state(r, OFF) that found a device requiring r ON
\* and switched it off.
C37_Witness ==
    /\ DepthOne(cfg) /\ Consistent(cfg) /\ ~faulted
    /\ LastSetState(OFF, "ok")
    /\ \E d \in Pins(cfg) :
          /\ last.dev \in Requires(cfg, d)
          /\ last.pre[d] = ON
          /\ states[d] = OFF

\* C38: a set_manual_override(d, s, m) that fails leaves the override table
\* as it was: when d had no override before the call, it has none after it.
C38_FailedOverrideNotInstalled ==
    (last.op = "set_manual_override" /\ last.result # "ok" /\ ~last.replaced) =>
        last.dev \notin DOMAIN overrides

\* C39: clear_manual_override(d) removes the entry of d and changes no
\* logical state and no line; a process() that evicts expired entries and
\* issues no set_state changes no logical state and no line either, so the
\* device keeps the state the override forced.
C39_EndTouchesNoHardware ==
    [][ /\ last'.op = "clear_manual_override" =>
              /\ states' = states /\ gpio' = gpio
              /\ overrides' = clear_override(overrides, last'.dev)
        /\ (last'.op = "process" /\ last' # last /\ last'.evicted # {}
              /\ last'.calls = <<>>) =>
              /\ states' = states /\ gpio' = gpio
              /\ DOMAIN overrides' = DOMAIN overrides \ last'.evicted ]_vars

\* A process() that evicted the expired override of a device and left the
\* device ON, as the override had forced it.
C39_Witness ==
    /\ last.op = "process" /\ last.result = "ok"
    /\ last.calls = <<>>
    /\ \E d \in last.evicted : d \notin DOMAIN overrides /\ states[d] = ON

\* The cycle's readings are not empty and hold no value for any measurement
\* of the rule's conditions.
NoValuesFor(rule, entry) ==
    /\ entry.readings # <<>>
    /\ \A i \in 1..Len(rule.threshold_conditions) :
          get_measurement(SensorSnapshot(entry.readings),
                          rule.threshold_conditions[i].measurement) = <<>>

\* C40: a process() whose readings hold no value for the measurement of the
\* threshold rule temperature > 25 => ON, with no override on the rule's
\* device, evaluates the rule to OFF, not to no decision, and leaves the
\* device OFF, switching it off when it was ON.
C40_NoValuesGivesComplement ==
    (last.op = "process" /\ hist # <<>>) =>
        LET entry == hist[Len(hist)]
        IN (NoValuesFor(rules[1], entry) /\ ~entry.skipped) =>
              /\ last.desired[1] = OFF
              /\ entry.state = OFF
              /\ states[rules[1].device_id] = OFF

\* A cycle with a humidity reading only that switched the device off.
C40_Witness ==
    /\ last.op = "process" /\ last.result = "ok" /\ hist # <<>>
    /\ NoValuesFor(rules[1], hist[Len(hist)])
    /\ ~hist[Len(hist)].skipped
    /\ last.calls = << <<rules[1].device_id, OFF>> >>

====
